---- MODULE Spec2Model ----
(***************************************************************************)
(* Fotema: the bootstrap pipeline driven by App::update (src/src/app.rs),  *)
(* the GeneratePreviews worker (src/src/app/background/                    *)
(* generate_previews.rs) and the Visual entity (src/core/src/visual/       *)
(* model.rs).                                                              *)
(*                                                                         *)
(* Three specifications share the variables below:                        *)
(*   Spec         the coordinator App and the stage workers it drives      *)
(*   SpecPreviews the GeneratePreviews worker and a concurrent reader      *)
(*   SpecVisual   the repository rows merged into Visuals                  *)
(***************************************************************************)
EXTENDS Integers, Sequences, FiniteSets, TLC

\* ------------------------------------------------------------------ bounds
\* Largest item count an enrichment worker reports in Started(count).
MaxItems == 2
\* Number of times the user presses the banner's Refresh button.
MaxUserRefresh == 1
\* Number of times the user presses the sidebar toggle button.
MaxToggle == 1

\* Number of pictures in the repository read by GeneratePreviews.
MaxPics == 2
\* Number of Generate requests sent to the GeneratePreviews worker.
MaxGenerate == 2

\* Number of canonical base paths under the library root.
MaxBases == 2

\* Calendar years of created_at: MinYear..MaxYear, proleptic Gregorian,
\* year 0 being 1 BCE.
MinYear == 0 - 1
MaxYear == 2

\* ------------------------------------------------------- program constants
\* "Show pulsing for first 20 items ... then switch to fractional view".
PulseLimit == 20

\* ------------------------------------------------------------------- names
ScanStages == {"ScanPhotos", "ScanVideos"}
CleanStages == {"CleanPhotos", "CleanVideos"}
EnrichStages == {"EnrichPhotos", "EnrichVideos"}
Stages == ScanStages \cup CleanStages \cup EnrichStages
Workers == Stages \cup {"LoadLibrary"}

\* The views that App holds a controller for and refreshes.
Views == {"all_photos", "selfies_page", "videos_page", "motion_page",
          "folder_album", "folder_photos", "month_photos", "year_photos"}

\* Who asked for a library reload (not program state: it labels a message).
Origins == {"init", "user", "self"}

VARIABLES
    \* ---- App (src/src/app.rs)
    appQueue,               \* input channel of the App component (FIFO)
    last_load_at,           \* App::last_load_at.is_some()
    show_sidebar,           \* main_navigation.shows_sidebar()
    spinner_visible,        \* spinner.is_visible()
    spinner_spinning,       \* spinner started and not stopped
    banner_title,           \* banner.title()
    banner_revealed,        \* banner.is_revealed()
    banner_button_label,    \* banner.button_label(): "None" or "Refresh"
    progress_box_visible,   \* progress_box.is_visible()
    progress_end_count,     \* App::progress_end_count
    progress_current_count, \* App::progress_current_count
    progress_bar_text,      \* progress_bar.text()
    progress_bar_fraction,  \* progress_bar.fraction() as <<numerator, denominator>>
    view_refresh,           \* per view: number of Refresh inputs sent to it
    wk,                     \* per worker: its input channel and what it is doing
    emitted,                \* inputs the App has sent to its workers, in order
    completed,              \* stages whose Completed message the App has handled
    started,                \* stages whose Started message the App has handled
    refreshed_handled,      \* per origin: LibraryRefreshed messages handled
    user_clicks,            \* Refresh button presses so far
    user_toggles,           \* sidebar toggle presses so far
    \* ---- GeneratePreviews (src/src/app/background/generate_previews.rs)
    gp_inbox,               \* Generate messages waiting in the worker's channel
    gp_sent,                \* Generate messages sent so far
    gp_pc,                  \* where the worker is in update / update_previews
    gp_pics,                \* pics still to be iterated by the for loop
    gp_pics_count,          \* pics_count
    gp_pic,                 \* pic of the current iteration (0: none)
    gp_result,              \* what update_previews returned: "none", "Ok", "Err"
    repo_lock,              \* owner of the repository mutex
    repo_rows,              \* the pictures repo.all() returns, in its order
    repo_previews,          \* pictures whose preview add_preview has stored
    gp_calls,               \* calls made during the current Generate, in order
    gp_out,                 \* outputs sent during the current Generate, in order
    gp_during,              \* Generate messages sent while a Generate was being handled
    gp_passes,              \* repo.all() calls so far
    gp_outputs,             \* PreviewsGenerated outputs sent so far
    gp_failed_before,       \* pics whose set_preview failed in an earlier Generate
    gp_previews_start,      \* repo_previews when the current Generate was taken
    \* ---- Visual (src/core/src/visual/model.rs) and the rows it is merged from
    pictures,               \* per base path: the picture row, if any
    videos,                 \* per base path: the video row, if any
    library,                \* the Visuals of the latest all_visuals()
    \* ---- a method call on one Visual (src/core/src/visual/model.rs)
    this,                   \* the Visual the method is called on (&self)
    called,                 \* the method called last ("-": none yet)
    returned                \* what that call returned, or that it panicked

appVars == <<appQueue, last_load_at, show_sidebar, spinner_visible, spinner_spinning,
             banner_title, banner_revealed, banner_button_label,
             progress_box_visible, progress_end_count, progress_current_count,
             progress_bar_text, progress_bar_fraction, view_refresh, wk, emitted,
             completed, started, refreshed_handled, user_clicks, user_toggles>>

previewVars == <<gp_inbox, gp_sent, gp_pc, gp_pics, gp_pics_count, gp_pic, gp_result,
                 repo_lock, repo_rows, repo_previews, gp_calls, gp_out,
                 gp_during, gp_passes, gp_outputs, gp_failed_before,
                 gp_previews_start>>

methodVars == <<this, called, returned>>

visualVars == <<pictures, videos, library, methodVars>>

vars == <<appVars, previewVars, visualVars>>

\* ---------------------------------------------------------------- messages
Msg(t, c, o) == [type |-> t, count |-> c, origin |-> o]
M(t) == Msg(t, 0, "-")

\* An input sent by the App to a worker.
Emit(w, o) == [worker |-> w, origin |-> o]

IdleWorker == [inbox |-> <<>>, running |-> FALSE, remaining |-> 0]

\* WorkerController::emit: the input is appended to the worker's channel.
Send(w, o) == [wk EXCEPT ![w].inbox = Append(@, o)]

RECURSIVE SendSeq(_, _)
SendSeq(w, ws) ==
    IF ws = <<>> THEN w
    ELSE SendSeq([w EXCEPT ![Head(ws)].inbox = Append(@, "-")], Tail(ws))

\* The App sends Start to each worker of ws, in order.
StartAll(ws) ==
    /\ wk' = SendSeq(wk, ws)
    /\ emitted' = emitted \o [i \in 1..Len(ws) |-> Emit(ws[i], "-")]

spinnerVars == <<spinner_visible, spinner_spinning>>
bannerVars == <<banner_title, banner_revealed, banner_button_label>>
progressVars == <<progress_box_visible, progress_end_count, progress_current_count,
                  progress_bar_text, progress_bar_fraction>>
userVars == <<user_clicks, user_toggles>>

\* -------------------------------------------------------------- App::init
\* The state in which App::init returns: spinner shown and started, the
\* initial LoadLibraryInput::Refresh and folder_album's initial Refresh sent.
AppInit ==
    /\ appQueue = <<>>
    /\ last_load_at = FALSE
    /\ show_sidebar = TRUE
    /\ spinner_visible = TRUE
    /\ spinner_spinning = TRUE
    /\ banner_title = "-"
    /\ banner_revealed = FALSE
    /\ banner_button_label = "None"
    /\ progress_box_visible = FALSE
    /\ progress_end_count = 0
    /\ progress_current_count = 0
    /\ progress_bar_text = "None"
    /\ progress_bar_fraction = <<0, 1>>
    /\ view_refresh = [v \in Views |-> IF v = "folder_album" THEN 1 ELSE 0]
    /\ wk = [w \in Workers |->
                IF w = "LoadLibrary" THEN [IdleWorker EXCEPT !.inbox = <<"init">>]
                ELSE IdleWorker]
    /\ emitted = <<Emit("LoadLibrary", "init")>>
    /\ completed = {}
    /\ started = {}
    /\ refreshed_handled = [o \in Origins |-> 0]
    /\ user_clicks = 0
    /\ user_toggles = 0

\* ------------------------------------------------------------ App::update
\* One action per pipeline message and ToggleSidebar.  The handlers of Quit,
\* SwitchView, ViewPhoto, ViewHidden, ViewFolder, GoToMonth, GoToYear and
\* PreferencesUpdated read and write none of the variables above (ViewFolder
\* sends folder_album a Filter, not a Refresh) and are left out.
Receive(t) == appQueue # <<>> /\ Head(appQueue).type = t

\* AppMsg::ToggleSidebar
ToggleSidebar ==
    /\ UNCHANGED <<previewVars, visualVars>>
    /\ Receive("ToggleSidebar")
    /\ appQueue' = Tail(appQueue)
    /\ LET show == show_sidebar IN
         /\ show_sidebar' = ~show
         /\ spinner_visible' = show
    /\ UNCHANGED <<last_load_at, spinner_spinning, bannerVars, progressVars,
                   view_refresh, wk, emitted, completed, started, refreshed_handled, userVars>>

\* AppMsg::LibraryRefresh
LibraryRefresh ==
    /\ UNCHANGED <<previewVars, visualVars>>
    /\ Receive("LibraryRefresh")
    /\ appQueue' = Tail(appQueue)
    /\ wk' = Send("LoadLibrary", Head(appQueue).origin)
    /\ emitted' = Append(emitted, Emit("LoadLibrary", Head(appQueue).origin))
    /\ UNCHANGED <<last_load_at, show_sidebar, spinnerVars, bannerVars, progressVars,
                   view_refresh, completed, started, refreshed_handled, userVars>>

\* A view left out of the refresh.
RefreshedViewsButOne ==
    {"all_photos", "selfies_page", "videos_page", "motion_page",
     "folder_album", "folder_photos", "month_photos"}

\* The views sent a Refresh when the library has been reloaded.
RefreshedViews ==
    {"all_photos", "selfies_page", "videos_page", "motion_page",
     "folder_album", "folder_photos", "month_photos", "year_photos"}

\* The scan triggered by every reload, not only the first.
IsFirstLoadAlways == TRUE

\* "Is this the completion of the first library scan after start up."
IsFirstLoad == ~last_load_at

\* The load time forgotten: last_load_at left as it was.
LastLoadAtOnRefreshedKept == last_load_at

\* "self.last_load_at = Some(SystemTime::now())": is last_load_at set afterwards.
LastLoadAtOnRefreshed == TRUE

\* The spinner left on screen by a reload that is not the first.
SpinnerVisibleOnReloadedKept == spinner_visible

\* "self.spinner.set_visible(false)" of a LibraryRefreshed that is not the
\* first.
SpinnerVisibleOnReloaded == FALSE

\* AppMsg::LibraryRefreshed
LibraryRefreshed ==
    /\ UNCHANGED <<previewVars, visualVars>>
    /\ Receive("LibraryRefreshed")
    /\ appQueue' = Tail(appQueue)
    /\ view_refresh' = [v \in Views |->
                           IF v \in RefreshedViews THEN view_refresh[v] + 1
                           ELSE view_refresh[v]]
    /\ IF IsFirstLoad
         THEN /\ StartAll(<<"ScanPhotos">>)
              /\ UNCHANGED spinnerVars
         ELSE /\ spinner_visible' = SpinnerVisibleOnReloaded
              /\ spinner_spinning' = FALSE
              /\ UNCHANGED <<wk, emitted>>
    /\ last_load_at' = LastLoadAtOnRefreshed
    /\ refreshed_handled' =
           [refreshed_handled EXCEPT ![Head(appQueue).origin] = @ + 1]
    /\ UNCHANGED <<show_sidebar, bannerVars, progressVars, completed, started, userVars>>

\* AppMsg::PhotoScanStarted
PhotoScanStarted ==
    /\ UNCHANGED <<previewVars, visualVars>>
    /\ Receive("PhotoScanStarted")
    /\ appQueue' = Tail(appQueue)
    /\ started' = started \cup {"ScanPhotos"}
    /\ spinner_spinning' = TRUE
    /\ banner_title' = "Scanning file system for photos."
    /\ banner_revealed' = TRUE
    /\ UNCHANGED <<last_load_at, show_sidebar, spinner_visible, banner_button_label,
                   progressVars, view_refresh, wk, emitted, completed,
                   refreshed_handled, userVars>>

\* Workers started on AppMsg::PhotoScanCompleted.
PhotoScanCompletedStarts == <<"ScanVideos">>

\* AppMsg::PhotoScanCompleted
PhotoScanCompleted ==
    /\ UNCHANGED <<previewVars, visualVars>>
    /\ Receive("PhotoScanCompleted")
    /\ appQueue' = Tail(appQueue)
    /\ StartAll(PhotoScanCompletedStarts)
    /\ completed' = completed \cup {"ScanPhotos"}
    /\ UNCHANGED started
    /\ UNCHANGED <<last_load_at, show_sidebar, spinnerVars, bannerVars, progressVars,
                   view_refresh, refreshed_handled, userVars>>

\* AppMsg::VideoScanStarted
VideoScanStarted ==
    /\ UNCHANGED <<previewVars, visualVars>>
    /\ Receive("VideoScanStarted")
    /\ appQueue' = Tail(appQueue)
    /\ started' = started \cup {"ScanVideos"}
    /\ spinner_spinning' = TRUE
    /\ banner_title' = "Scanning file system for videos."
    /\ banner_revealed' = TRUE
    /\ UNCHANGED <<last_load_at, show_sidebar, spinner_visible, banner_button_label,
                   progressVars, view_refresh, wk, emitted, completed,
                   refreshed_handled, userVars>>

\* Workers started on AppMsg::VideoScanCompleted.
VideoScanCompletedStarts == <<"CleanPhotos">>

\* AppMsg::VideoScanCompleted
VideoScanCompleted ==
    /\ UNCHANGED <<previewVars, visualVars>>
    /\ Receive("VideoScanCompleted")
    /\ appQueue' = Tail(appQueue)
    /\ StartAll(VideoScanCompletedStarts)
    /\ completed' = completed \cup {"ScanVideos"}
    /\ UNCHANGED started
    /\ UNCHANGED <<last_load_at, show_sidebar, spinnerVars, bannerVars, progressVars,
                   view_refresh, refreshed_handled, userVars>>

\* The count of the stage before kept when the next stage starts.
ProgressCurrentOnStartedKept == progress_current_count

\* "self.progress_current_count = 0" of both EnrichmentStarted handlers.
ProgressCurrentOnStarted == 0

\* The spinner left as it was when an enrichment stage starts.
SpinnerVisibleOnStartedKept(show) == spinner_visible

\* "self.spinner.set_visible(!show)" of both EnrichmentStarted handlers.
SpinnerVisibleOnStarted(show) == ~show

\* The progress box left on screen when an enrichment stage completes.
ProgressBoxOnCompletedKept == progress_box_visible

\* "self.progress_box.set_visible(false)" of both EnrichmentCompleted handlers.
ProgressBoxOnCompleted == FALSE

\* The Refresh button left on the banner when an enrichment stage completes.
ButtonLabelOnCompletedKept == banner_button_label

\* "self.banner.set_button_label(None)" of both EnrichmentCompleted handlers.
ButtonLabelOnCompleted == "None"

\* AppMsg::PhotoEnrichmentStarted(count)
PhotoEnrichmentStarted ==
    /\ UNCHANGED <<previewVars, visualVars>>
    /\ Receive("PhotoEnrichmentStarted")
    /\ appQueue' = Tail(appQueue)
    /\ started' = started \cup {"EnrichPhotos"}
    /\ banner_title' = "Generating photo thumbnails. This will take a while."
    /\ banner_button_label' = "Refresh"
    /\ banner_revealed' = TRUE
    /\ spinner_spinning' = TRUE
    /\ LET show == show_sidebar IN spinner_visible' = SpinnerVisibleOnStarted(show)
    /\ progress_end_count' = Head(appQueue).count
    /\ progress_current_count' = ProgressCurrentOnStarted
    /\ progress_box_visible' = TRUE
    /\ progress_bar_fraction' = <<0, 1>>
    /\ progress_bar_text' = "Generating photo thumbnails."
    /\ UNCHANGED <<last_load_at, show_sidebar, view_refresh, wk, emitted, completed,
                   refreshed_handled, userVars>>

\* AppMsg::PhotoEnriched
PhotoEnriched ==
    /\ UNCHANGED <<previewVars, visualVars>>
    /\ Receive("PhotoEnriched")
    /\ appQueue' = Tail(appQueue)
    /\ progress_current_count' = progress_current_count + 1
    /\ IF progress_current_count' < PulseLimit
         THEN UNCHANGED <<progress_bar_text, progress_bar_fraction>>
         ELSE /\ progress_bar_text' =
                    IF progress_current_count' = PulseLimit THEN "None"
                    ELSE progress_bar_text
              /\ progress_bar_fraction' =
                    <<progress_current_count', progress_end_count>>
    /\ UNCHANGED <<last_load_at, show_sidebar, spinnerVars, bannerVars,
                   progress_box_visible, progress_end_count, view_refresh, wk,
                   emitted, completed, started, refreshed_handled, userVars>>

\* Workers started on AppMsg::PhotoEnrichmentCompleted.
PhotoEnrichmentCompletedStarts == <<"EnrichVideos">>

\* The reload requested after the photo enrichment too.
PhotoEnrichmentCompletedInputsReload == <<Msg("LibraryRefresh", 0, "self")>>

\* Messages the App sends to itself on AppMsg::PhotoEnrichmentCompleted
\* ("//sender.input(AppMsg::LibraryRefresh);" is commented out).
PhotoEnrichmentCompletedInputs == <<>>

\* AppMsg::PhotoEnrichmentCompleted
PhotoEnrichmentCompleted ==
    /\ UNCHANGED <<previewVars, visualVars>>
    /\ Receive("PhotoEnrichmentCompleted")
    /\ appQueue' = Tail(appQueue) \o PhotoEnrichmentCompletedInputs
    /\ spinner_spinning' = FALSE
    /\ banner_revealed' = FALSE
    /\ banner_button_label' = ButtonLabelOnCompleted
    /\ progress_box_visible' = ProgressBoxOnCompleted
    /\ StartAll(PhotoEnrichmentCompletedStarts)
    /\ completed' = completed \cup {"EnrichPhotos"}
    /\ UNCHANGED started
    /\ UNCHANGED <<last_load_at, show_sidebar, spinner_visible, banner_title,
                   progress_end_count, progress_current_count, progress_bar_text,
                   progress_bar_fraction, view_refresh, refreshed_handled, userVars>>

\* AppMsg::VideoEnrichmentStarted(count)
VideoEnrichmentStarted ==
    /\ UNCHANGED <<previewVars, visualVars>>
    /\ Receive("VideoEnrichmentStarted")
    /\ appQueue' = Tail(appQueue)
    /\ started' = started \cup {"EnrichVideos"}
    /\ banner_title' = "Generating video thumbnails. This will take a while."
    /\ banner_button_label' = "Refresh"
    /\ banner_revealed' = TRUE
    /\ spinner_spinning' = TRUE
    /\ LET show == show_sidebar IN spinner_visible' = SpinnerVisibleOnStarted(show)
    /\ progress_end_count' = Head(appQueue).count
    /\ progress_current_count' = ProgressCurrentOnStarted
    /\ progress_box_visible' = TRUE
    /\ progress_bar_fraction' = <<0, 1>>
    /\ progress_bar_text' = "Generating video thumbnails."
    /\ UNCHANGED <<last_load_at, show_sidebar, view_refresh, wk, emitted, completed,
                   refreshed_handled, userVars>>

\* AppMsg::VideoEnriched
VideoEnriched ==
    /\ UNCHANGED <<previewVars, visualVars>>
    /\ Receive("VideoEnriched")
    /\ appQueue' = Tail(appQueue)
    /\ progress_current_count' = progress_current_count + 1
    /\ IF progress_current_count' < PulseLimit
         THEN UNCHANGED <<progress_bar_text, progress_bar_fraction>>
         ELSE /\ progress_bar_text' =
                    IF progress_current_count' = PulseLimit THEN "None"
                    ELSE progress_bar_text
              /\ progress_bar_fraction' =
                    <<progress_current_count', progress_end_count>>
    /\ UNCHANGED <<last_load_at, show_sidebar, spinnerVars, bannerVars,
                   progress_box_visible, progress_end_count, view_refresh, wk,
                   emitted, completed, started, refreshed_handled, userVars>>

\* The last stage's completion asking for no reload.
VideoEnrichmentCompletedInputsNone == <<>>

\* Messages the App sends to itself on AppMsg::VideoEnrichmentCompleted.
VideoEnrichmentCompletedInputs == <<Msg("LibraryRefresh", 0, "self")>>

\* AppMsg::VideoEnrichmentCompleted
VideoEnrichmentCompleted ==
    /\ UNCHANGED <<previewVars, visualVars>>
    /\ Receive("VideoEnrichmentCompleted")
    /\ spinner_spinning' = FALSE
    /\ banner_revealed' = FALSE
    /\ banner_button_label' = ButtonLabelOnCompleted
    /\ progress_box_visible' = ProgressBoxOnCompleted
    /\ appQueue' = Tail(appQueue) \o VideoEnrichmentCompletedInputs
    /\ completed' = completed \cup {"EnrichVideos"}
    /\ UNCHANGED started
    /\ UNCHANGED <<last_load_at, show_sidebar, spinner_visible, banner_title,
                   progress_end_count, progress_current_count, progress_bar_text,
                   progress_bar_fraction, view_refresh, wk, emitted,
                   refreshed_handled, userVars>>

\* AppMsg::PhotoCleanStarted
PhotoCleanStarted ==
    /\ UNCHANGED <<previewVars, visualVars>>
    /\ Receive("PhotoCleanStarted")
    /\ appQueue' = Tail(appQueue)
    /\ started' = started \cup {"CleanPhotos"}
    /\ banner_title' = "Photo database maintenance."
    /\ banner_revealed' = TRUE
    /\ UNCHANGED <<last_load_at, show_sidebar, spinnerVars, banner_button_label,
                   progressVars, view_refresh, wk, emitted, completed,
                   refreshed_handled, userVars>>

\* Both Starts of PhotoCleanCompleted active at once.
PhotoCleanCompletedStartsBoth == <<"EnrichPhotos", "CleanVideos">>

\* The other Start of PhotoCleanCompleted: photo enrichment right after the photo clean.
PhotoCleanCompletedStartsEnrich == <<"EnrichPhotos">>

\* Workers started on AppMsg::PhotoCleanCompleted.
PhotoCleanCompletedStarts == <<"CleanVideos">>

\* AppMsg::PhotoCleanCompleted
PhotoCleanCompleted ==
    /\ UNCHANGED <<previewVars, visualVars>>
    /\ Receive("PhotoCleanCompleted")
    /\ appQueue' = Tail(appQueue)
    /\ banner_revealed' = FALSE
    /\ banner_button_label' = "None"
    /\ StartAll(PhotoCleanCompletedStarts)
    /\ completed' = completed \cup {"CleanPhotos"}
    /\ UNCHANGED started
    /\ UNCHANGED <<last_load_at, show_sidebar, spinnerVars, banner_title, progressVars,
                   view_refresh, refreshed_handled, userVars>>

\* AppMsg::VideoCleanStarted
VideoCleanStarted ==
    /\ UNCHANGED <<previewVars, visualVars>>
    /\ Receive("VideoCleanStarted")
    /\ appQueue' = Tail(appQueue)
    /\ started' = started \cup {"CleanVideos"}
    /\ banner_title' = "Video database maintenance."
    /\ banner_revealed' = TRUE
    /\ UNCHANGED <<last_load_at, show_sidebar, spinnerVars, banner_button_label,
                   progressVars, view_refresh, wk, emitted, completed,
                   refreshed_handled, userVars>>

\* The other Start of VideoCleanCompleted: video enrichment first.
VideoCleanCompletedStartsVideos == <<"EnrichVideos">>

\* Workers started on AppMsg::VideoCleanCompleted.
VideoCleanCompletedStarts == <<"EnrichPhotos">>

\* AppMsg::VideoCleanCompleted
VideoCleanCompleted ==
    /\ UNCHANGED <<previewVars, visualVars>>
    /\ Receive("VideoCleanCompleted")
    /\ appQueue' = Tail(appQueue)
    /\ banner_revealed' = FALSE
    /\ banner_button_label' = "None"
    /\ StartAll(VideoCleanCompletedStarts)
    /\ completed' = completed \cup {"CleanVideos"}
    /\ UNCHANGED started
    /\ UNCHANGED <<last_load_at, show_sidebar, spinnerVars, banner_title, progressVars,
                   view_refresh, refreshed_handled, userVars>>

\* ------------------------------------------------------------------- user
\* The banner's button exists while the banner is revealed with a label;
\* pressing it sends AppMsg::LibraryRefresh.
BannerButtonClicked ==
    /\ UNCHANGED <<previewVars, visualVars>>
    /\ banner_revealed
    /\ banner_button_label # "None"
    /\ user_clicks < MaxUserRefresh
    /\ user_clicks' = user_clicks + 1
    /\ appQueue' = Append(appQueue, Msg("LibraryRefresh", 0, "user"))
    /\ UNCHANGED <<last_load_at, show_sidebar, spinnerVars, bannerVars, progressVars,
                   view_refresh, wk, emitted, completed, started, refreshed_handled,
                   user_toggles>>

\* The header bar's dock-left button sends AppMsg::ToggleSidebar.
SidebarButtonClicked ==
    /\ UNCHANGED <<previewVars, visualVars>>
    /\ user_toggles < MaxToggle
    /\ user_toggles' = user_toggles + 1
    /\ appQueue' = Append(appQueue, M("ToggleSidebar"))
    /\ UNCHANGED <<last_load_at, show_sidebar, spinnerVars, bannerVars, progressVars,
                   view_refresh, wk, emitted, completed, started, refreshed_handled,
                   user_clicks>>

\* ---------------------------------------------------------------- workers
\* The message each worker output is forwarded as (App::init, forward(..)).
Forward(w, out) ==
    CASE w = "LoadLibrary"  -> "LibraryRefreshed"
      [] w = "ScanPhotos"   -> "PhotoScan" \o out
      [] w = "ScanVideos"   -> "VideoScan" \o out
      [] w = "CleanPhotos"  -> "PhotoClean" \o out
      [] w = "CleanVideos"  -> "VideoClean" \o out
      [] w = "EnrichPhotos" -> IF out = "Generated" THEN "PhotoEnriched"
                               ELSE "PhotoEnrichment" \o out
      [] w = "EnrichVideos" -> IF out = "Generated" THEN "VideoEnriched"
                               ELSE "VideoEnrichment" \o out

appFrame == <<previewVars, visualVars, last_load_at, show_sidebar, spinnerVars, bannerVars, progressVars,
              view_refresh, emitted, completed, started, refreshed_handled, userVars>>

\* LoadLibrary: each Refresh is answered with Refreshed.
LoadLibraryRefresh ==
    /\ wk["LoadLibrary"].inbox # <<>>
    /\ wk' = [wk EXCEPT !["LoadLibrary"].inbox = Tail(@)]
    /\ appQueue' = Append(appQueue,
           Msg(Forward("LoadLibrary", "Refreshed"), 0, Head(wk["LoadLibrary"].inbox)))
    /\ UNCHANGED appFrame

\* A scan or clean worker takes Start and reports Started.
TaskStart(w) ==
    /\ ~wk[w].running
    /\ wk[w].inbox # <<>>
    /\ wk' = [wk EXCEPT ![w].inbox = Tail(@), ![w].running = TRUE]
    /\ appQueue' = Append(appQueue, M(Forward(w, "Started")))
    /\ UNCHANGED appFrame

\* An enrichment worker takes Start and reports Started(count).
EnrichStart(w, n) ==
    /\ ~wk[w].running
    /\ wk[w].inbox # <<>>
    /\ wk' = [wk EXCEPT ![w].inbox = Tail(@), ![w].running = TRUE,
                        ![w].remaining = n]
    /\ appQueue' = Append(appQueue, Msg(Forward(w, "Started"), n, "-"))
    /\ UNCHANGED appFrame

\* An enrichment worker reports one item, enriched or failed.
EnrichItem(w) ==
    /\ wk[w].running
    /\ wk[w].remaining > 0
    /\ wk' = [wk EXCEPT ![w].remaining = @ - 1]
    /\ appQueue' = Append(appQueue, M(Forward(w, "Generated")))
    /\ UNCHANGED appFrame

\* A worker reports Completed.
WorkerComplete(w) ==
    /\ wk[w].running
    /\ wk[w].remaining = 0
    /\ wk' = [wk EXCEPT ![w].running = FALSE]
    /\ appQueue' = Append(appQueue, M(Forward(w, "Completed")))
    /\ UNCHANGED appFrame

ScanWorker == \E w \in ScanStages : TaskStart(w) \/ WorkerComplete(w)
CleanWorker == \E w \in CleanStages : TaskStart(w) \/ WorkerComplete(w)
EnrichWorker ==
    \E w \in EnrichStages :
        \/ \E n \in 0..MaxItems : EnrichStart(w, n)
        \/ EnrichItem(w)
        \/ WorkerComplete(w)

AppUpdate ==
    \/ ToggleSidebar
    \/ LibraryRefresh
    \/ LibraryRefreshed
    \/ PhotoScanStarted
    \/ PhotoScanCompleted
    \/ VideoScanStarted
    \/ VideoScanCompleted
    \/ PhotoEnrichmentStarted
    \/ PhotoEnriched
    \/ PhotoEnrichmentCompleted
    \/ VideoEnrichmentStarted
    \/ VideoEnriched
    \/ VideoEnrichmentCompleted
    \/ PhotoCleanStarted
    \/ PhotoCleanCompleted
    \/ VideoCleanStarted
    \/ VideoCleanCompleted

\* The GeneratePreviews worker not yet launched.
PreviewsIdle ==
    /\ gp_inbox = 0
    /\ gp_sent = 0
    /\ gp_pc = "idle"
    /\ gp_pics = <<>>
    /\ gp_pics_count = 0
    /\ gp_pic = 0
    /\ gp_result = "none"
    /\ repo_lock = "free"
    /\ repo_rows = <<>>
    /\ repo_previews = {}
    /\ gp_calls = <<>>
    /\ gp_out = <<>>
    /\ gp_during = 0
    /\ gp_passes = 0
    /\ gp_outputs = 0
    /\ gp_failed_before = {}
    /\ gp_previews_start = {}

\* No method of Visual called.
MethodsIdle ==
    /\ this = <<>>
    /\ called = "-"
    /\ returned = <<>>

\* No repository rows, no Visual loaded.
VisualsIdle ==
    /\ pictures = <<>>
    /\ videos = <<>>
    /\ library = {}
    /\ MethodsIdle

Init == AppInit /\ PreviewsIdle /\ VisualsIdle

Next ==
    \/ AppUpdate
    \/ BannerButtonClicked
    \/ SidebarButtonClicked
    \/ LoadLibraryRefresh
    \/ ScanWorker
    \/ CleanWorker
    \/ EnrichWorker

Spec == Init /\ [][Next]_vars

\* Every message in a channel is eventually handled by its receiver: the App
\* handles the head of its input channel, the library loader answers each
\* Refresh, and each worker answers a Start and runs to Completed.  The user
\* is under no obligation to press anything.
Fairness ==
    /\ WF_vars(AppUpdate)
    /\ WF_vars(LoadLibraryRefresh)
    /\ WF_vars(ScanWorker)
    /\ WF_vars(CleanWorker)
    /\ WF_vars(EnrichWorker)

SpecLive == Spec /\ Fairness

\* ======================================================= GeneratePreviews
Pics == 1..MaxPics

\* The orders in which a repository of up to MaxPics pictures lists them.
Listings ==
    {l \in UNION {[1..n -> Pics] : n \in 0..MaxPics} :
        \A i, j \in 1..Len(l) : i # j => l[i] # l[j]}

\* The pictures left in the order of repo.all().
ReverseForgotten(l) == l

\* Vec::reverse
Reverse(l) == [i \in 1..Len(l) |-> l[Len(l) + 1 - i]]

Call(op, pic, ok) == [op |-> op, pic |-> pic, ok |-> ok]

\* Worker::init: the worker owns the previewer and shares the repository.
PreviewsInit ==
    /\ gp_inbox = 0
    /\ gp_sent = 0
    /\ gp_pc = "idle"
    /\ gp_pics = <<>>
    /\ gp_pics_count = 0
    /\ gp_pic = 0
    /\ gp_result = "none"
    /\ repo_lock = "free"
    /\ repo_rows \in Listings
    /\ repo_previews = {}
    /\ gp_calls = <<>>
    /\ gp_out = <<>>
    /\ gp_during = 0
    /\ gp_passes = 0
    /\ gp_outputs = 0
    /\ gp_failed_before = {}
    /\ gp_previews_start = {}

\* GeneratePreviewsInput::Generate is sent to the worker.
Generate ==
    /\ gp_sent < MaxGenerate
    /\ gp_sent' = gp_sent + 1
    /\ gp_inbox' = gp_inbox + 1
    /\ gp_during' = gp_during + (IF gp_pc = "idle" THEN 0 ELSE 1)
    /\ UNCHANGED <<appVars, visualVars, gp_passes, gp_outputs, gp_failed_before, gp_previews_start,
                   gp_pc, gp_pics, gp_pics_count, gp_pic, gp_result,
                   repo_lock, repo_rows, repo_previews, gp_calls, gp_out>>

\* The worker's channel once update has been handed its next message.
InboxAfterTake == gp_inbox - 1

\* GeneratePreviews::update takes the next Generate from its channel.
GpUpdate ==
    /\ gp_pc = "idle"
    /\ gp_inbox > 0
    /\ gp_inbox' = InboxAfterTake
    /\ gp_pc' = "lock_all"
    /\ gp_result' = "none"
    /\ gp_calls' = <<>>
    /\ gp_out' = <<>>
    /\ gp_failed_before' = gp_failed_before \cup
           {gp_calls[k].pic : k \in {x \in 1..Len(gp_calls) :
               gp_calls[x].op = "set_preview" /\ ~gp_calls[x].ok}}
    /\ gp_previews_start' = repo_previews
    /\ UNCHANGED <<appVars, visualVars, gp_during, gp_passes, gp_outputs,
                   gp_sent, gp_pics, gp_pics_count, gp_pic, repo_lock,
                   repo_rows, repo_previews>>

\* self.repo.lock() of "self.repo.lock().unwrap().all()?".
GpLockAll ==
    /\ gp_pc = "lock_all"
    /\ repo_lock = "free"
    /\ repo_lock' = "worker"
    /\ gp_pc' = "all"
    /\ UNCHANGED <<appVars, visualVars, gp_during, gp_passes, gp_outputs, gp_failed_before, gp_previews_start,
                   gp_inbox, gp_sent, gp_pics, gp_pics_count, gp_pic,
                   gp_result, repo_rows, repo_previews, gp_calls, gp_out>>

\* The guard bound to a local that outlives the statement.
LockAfterStatementHeld == "worker"

\* The owner of the mutex once a statement that locked it has ended: the
\* guard is a temporary of the statement and is dropped with it.
LockAfterStatement == "free"

\* .all()? with the guard dropped at the end of the statement; on Ok,
\* pics_count = pics.len() and pics.reverse().
GpAll(ok) ==
    /\ gp_pc = "all"
    /\ gp_calls' = Append(gp_calls, Call("all", 0, ok))
    /\ repo_lock' = LockAfterStatement
    /\ IF ok
         THEN /\ gp_pics' = Reverse(repo_rows)
              /\ gp_pics_count' = Len(repo_rows)
              /\ gp_pc' = "for"
              /\ UNCHANGED gp_result
         ELSE /\ gp_result' = "Err"
              /\ gp_pc' = "return"
              /\ UNCHANGED <<gp_pics, gp_pics_count>>
    /\ gp_passes' = gp_passes + 1
    /\ UNCHANGED <<appVars, visualVars, gp_during, gp_outputs, gp_failed_before, gp_previews_start,
                   gp_inbox, gp_sent, gp_pic, repo_rows, repo_previews,
                   gp_out>>

\* for mut pic in pics: the next pic, or the end of the loop and Ok(()).
GpFor ==
    /\ gp_pc = "for"
    /\ IF gp_pics = <<>>
         THEN /\ gp_result' = "Ok"
              /\ gp_pc' = "return"
              /\ gp_pic' = 0
              /\ UNCHANGED gp_pics
         ELSE /\ gp_pic' = Head(gp_pics)
              /\ gp_pics' = Tail(gp_pics)
              /\ gp_pc' = "set_preview"
              /\ UNCHANGED gp_result
    /\ UNCHANGED <<appVars, visualVars, gp_during, gp_passes, gp_outputs, gp_failed_before, gp_previews_start,
                   gp_inbox, gp_sent, gp_pics_count, repo_lock, repo_rows,
                   repo_previews, gp_calls, gp_out>>

\* The failure logged and the rest of the iteration run all the same.
AfterFailureFallThrough == "lock_add"

\* The failure propagated out of the loop instead of logged.
AfterFailureAbort == "return"

\* Where the loop goes when set_preview or add_preview has failed: continue.
AfterFailure == "for"

\* self.previewer.set_preview(&mut pic), and continue on Err.
GpSetPreview(ok) ==
    /\ gp_pc = "set_preview"
    /\ gp_calls' = Append(gp_calls, Call("set_preview", gp_pic, ok))
    /\ gp_pc' = IF ok THEN "lock_add" ELSE AfterFailure
    /\ UNCHANGED <<appVars, visualVars, gp_during, gp_passes, gp_outputs, gp_failed_before, gp_previews_start,
                   gp_inbox, gp_sent, gp_pics, gp_pics_count, gp_pic,
                   gp_result, repo_lock, repo_rows, repo_previews, gp_out>>

\* self.repo.lock() of "self.repo.lock().unwrap().add_preview(&pic)".
GpLockAdd ==
    /\ gp_pc = "lock_add"
    /\ repo_lock = "free"
    /\ repo_lock' = "worker"
    /\ gp_pc' = "add_preview"
    /\ UNCHANGED <<appVars, visualVars, gp_during, gp_passes, gp_outputs, gp_failed_before, gp_previews_start,
                   gp_inbox, gp_sent, gp_pics, gp_pics_count, gp_pic,
                   gp_result, repo_rows, repo_previews, gp_calls, gp_out>>

\* .add_preview(&pic) with the guard dropped at the end of the statement,
\* and continue on Err.
GpAddPreview(ok) ==
    /\ gp_pc = "add_preview"
    /\ gp_calls' = Append(gp_calls, Call("add_preview", gp_pic, ok))
    /\ repo_previews' = IF ok THEN repo_previews \cup {gp_pic} ELSE repo_previews
    /\ repo_lock' = LockAfterStatement
    /\ gp_pc' = IF ok THEN "for" ELSE AfterFailure
    /\ UNCHANGED <<appVars, visualVars, gp_during, gp_passes, gp_outputs, gp_failed_before, gp_previews_start,
                   gp_inbox, gp_sent, gp_pics, gp_pics_count, gp_pic,
                   gp_result, repo_rows, gp_out>>

\* update sending PreviewsGenerated whatever update_previews returned.
OutputsOnAlways(r) == <<"PreviewsGenerated">>

\* The completion never reported.
OutputsOnNothing(r) == <<>>

\* The outputs GeneratePreviews::update sends once update_previews returned r.
OutputsOn(r) == IF r = "Ok" THEN <<"PreviewsGenerated">> ELSE <<>>

\* update_previews has returned: update sends PreviewsGenerated unless Err.
GpReturn ==
    /\ gp_pc = "return"
    /\ gp_out' = gp_out \o OutputsOn(gp_result)
    /\ gp_pc' = "idle"
    /\ gp_outputs' = gp_outputs + Len(OutputsOn(gp_result))
    /\ UNCHANGED <<appVars, visualVars, gp_during, gp_passes, gp_failed_before, gp_previews_start,
                   gp_inbox, gp_sent, gp_pics, gp_pics_count, gp_pic,
                   gp_result, repo_lock, repo_rows, repo_previews, gp_calls>>

\* Another holder of the Arc<Mutex<Repository>> (viewing images) locks it.
ReaderLock ==
    /\ repo_lock = "free"
    /\ repo_lock' = "reader"
    /\ UNCHANGED <<appVars, visualVars, gp_during, gp_passes, gp_outputs, gp_failed_before, gp_previews_start,
                   gp_inbox, gp_sent, gp_pc, gp_pics, gp_pics_count, gp_pic,
                   gp_result, repo_rows, repo_previews, gp_calls, gp_out>>

\* ... and unlocks it.
ReaderUnlock ==
    /\ repo_lock = "reader"
    /\ repo_lock' = "free"
    /\ UNCHANGED <<appVars, visualVars, gp_during, gp_passes, gp_outputs, gp_failed_before, gp_previews_start,
                   gp_inbox, gp_sent, gp_pc, gp_pics, gp_pics_count, gp_pic,
                   gp_result, repo_rows, repo_previews, gp_calls, gp_out>>

InitPreviews == AppInit /\ PreviewsInit /\ VisualsIdle

NextPreviews ==
    \/ Generate
    \/ GpUpdate
    \/ GpLockAll
    \/ \E ok \in BOOLEAN : GpAll(ok)
    \/ GpFor
    \/ \E ok \in BOOLEAN : GpSetPreview(ok)
    \/ GpLockAdd
    \/ \E ok \in BOOLEAN : GpAddPreview(ok)
    \/ GpReturn
    \/ ReaderLock
    \/ ReaderUnlock

SpecPreviews == InitPreviews /\ [][NextPreviews]_vars

\* ================================================================= Visual
Bases == 1..MaxBases

\* Option<T>: None is the empty tuple, Some(x) the tuple of x.
None == <<>>
Some(x) == <<x>>
is_some(o) == o # None
is_none(o) == o = None

\* Option<bool>
OptionBool == {None, Some(TRUE), Some(FALSE)}

\* The fields of struct Visual that its methods read.
Visual(id, picture_id, picture_path, video_id, video_path, selfie, live) ==
    [visual_id |-> id,
     picture_id |-> picture_id, picture_path |-> picture_path,
     video_id |-> video_id, video_path |-> video_path,
     is_selfie |-> selfie, is_ios_live_photo |-> live]

\* Visual::is_photo_only with the video forgotten.
is_photo_only_any_video(v) == is_some(v.picture_id)

\* Visual::is_photo_only
is_photo_only(v) == is_some(v.picture_id) /\ is_none(v.video_id)

\* Visual::is_video_only with the picture forgotten.
is_video_only_any_picture(v) == is_some(v.video_id)

\* Visual::is_video_only
is_video_only(v) == is_none(v.picture_id) /\ is_some(v.video_id)

\* Visual::is_motion_photo taking any video for a motion photo.
is_motion_photo_any_video(v) == is_some(v.video_id)

\* Visual::is_motion_photo
is_motion_photo(v) == v.is_ios_live_photo

\* ---- the repository the Visuals come from
\* upsert_picture: the picture row of base path b is written.
UpsertPicture(b, selfie) ==
    /\ pictures' = [pictures EXCEPT ![b] = Some([is_selfie |-> selfie])]
    /\ UNCHANGED <<appVars, previewVars, methodVars, videos, library>>

\* upsert_video: the video row of base path b is written.
UpsertVideo(b) ==
    /\ videos' = [videos EXCEPT ![b] = Some([codec |-> "-"])]
    /\ UNCHANGED <<appVars, previewVars, methodVars, pictures, library>>

\* delete_missing: a row whose file is gone is deleted.
DeletePicture(b) ==
    /\ is_some(pictures[b])
    /\ pictures' = [pictures EXCEPT ![b] = None]
    /\ UNCHANGED <<appVars, previewVars, methodVars, videos, library>>

DeleteVideo(b) ==
    /\ is_some(videos[b])
    /\ videos' = [videos EXCEPT ![b] = None]
    /\ UNCHANGED <<appVars, previewVars, methodVars, pictures, library>>

\* The Visual of base path b: the picture row and the video row sharing the
\* base path merged into one, a row without a counterpart on its own.
Merge(b) ==
    Visual(b,
           IF is_some(pictures[b]) THEN Some(b) ELSE None,
           IF is_some(pictures[b]) THEN Some(b) ELSE None,
           IF is_some(videos[b]) THEN Some(b) ELSE None,
           IF is_some(videos[b]) THEN Some(b) ELSE None,
           IF is_some(pictures[b]) THEN pictures[b][1].is_selfie ELSE None,
           is_some(pictures[b]) /\ is_some(videos[b]))

\* all_visuals: one Visual per base path that has a row.
AllVisuals ==
    /\ library' = {Merge(b) : b \in {x \in Bases : is_some(pictures[x]) \/ is_some(videos[x])}}
    /\ UNCHANGED <<appVars, previewVars, methodVars, pictures, videos>>

VisualsInit ==
    /\ pictures = [b \in Bases |-> None]
    /\ videos = [b \in Bases |-> None]
    /\ library = {}
    /\ MethodsIdle

InitVisual == AppInit /\ PreviewsIdle /\ VisualsInit

NextVisual ==
    \/ \E b \in Bases, selfie \in OptionBool : UpsertPicture(b, selfie)
    \/ \E b \in Bases : UpsertVideo(b)
    \/ \E b \in Bases : DeletePicture(b)
    \/ \E b \in Bases : DeleteVideo(b)
    \/ AllVisuals

SpecVisual == InitVisual /\ [][NextVisual]_vars

\* ------------------------------------------------- the methods of Visual
\* chrono: Datelike::month() of a date is in 1..=12; Month::try_from(u8)
\* accepts exactly these.
Months == 1..12

\* u8
U8 == 0..255

\* A call that returned x, and a call that panicked.
Ok(x) == <<"ok", x>>
Panicked == <<"panic">>

\* created_at.date_naive(), as far as year() and year_month() read it.
Dates == [year : MinYear..MaxYear, month : Months]

\* Every value of struct Visual, the fields being independent of each other.
AnyVisual ==
    {Visual(1, picture_id, picture_path, video_id, video_path, selfie, live)
         @@ [created_at |-> date] :
       picture_id \in {None, Some(1)}, picture_path \in {None, Some("picture")},
       video_id \in {None, Some(1)}, video_path \in {None, Some("video")},
       selfie \in OptionBool, live \in BOOLEAN, date \in Dates}

\* Visual::path preferring the video.
path_video_first(v) ==
    IF is_some(v.video_path) THEN v.video_path ELSE v.picture_path

\* Visual::path: self.picture_path.as_ref().or_else(|| self.video_path.as_ref())
path(v) ==
    IF is_some(v.picture_path) THEN v.picture_path ELSE v.video_path

\* Visual::is_selfie taking every known flag for a selfie.
is_selfie_if_known(v) == is_some(v.is_selfie)

\* Visual::is_selfie: self.is_selfie.is_some_and(|x| x)
is_selfie(v) == is_some(v.is_selfie) /\ v.is_selfie[1]

\* chrono Datelike::year_ce: (true, year) in the common era, and
\* (false, 1 - year) before it.
year_ce(y) == IF y >= 1 THEN <<TRUE, y>> ELSE <<FALSE, 1 - y>>

\* Visual::year: self.created_at.date_naive().year_ce().1
year(v) == year_ce(v.created_at.year)[2]

\* u8::try_from(u32)
u8_try_from(n) == IF n \in U8 THEN Some(n) ELSE None

\* chrono::Month::try_from(u8)
month_try_from(n) == IF n \in Months THEN Some(n) ELSE None

\* Visual::year_month, each unwrap() panicking on None.
year_month(v) ==
    LET date == v.created_at
        m8 == u8_try_from(date.month)
    IN  IF is_none(m8) THEN Panicked
        ELSE LET month == month_try_from(m8[1])
             IN  IF is_none(month) THEN Panicked
                 ELSE Ok([year |-> date.year, month |-> month[1]])

\* The variables a method call leaves alone: the methods take &self.
methodFrame == <<appVars, previewVars, pictures, videos, library, this>>

\* Visual::path called
CallPath ==
    /\ called' = "path"
    /\ returned' = Ok(path(this))
    /\ UNCHANGED methodFrame

\* Visual::is_selfie called
CallIsSelfie ==
    /\ called' = "is_selfie"
    /\ returned' = Ok(is_selfie(this))
    /\ UNCHANGED methodFrame

\* Visual::is_motion_photo called
CallIsMotionPhoto ==
    /\ called' = "is_motion_photo"
    /\ returned' = Ok(is_motion_photo(this))
    /\ UNCHANGED methodFrame

\* Visual::is_photo_only called
CallIsPhotoOnly ==
    /\ called' = "is_photo_only"
    /\ returned' = Ok(is_photo_only(this))
    /\ UNCHANGED methodFrame

\* Visual::is_video_only called
CallIsVideoOnly ==
    /\ called' = "is_video_only"
    /\ returned' = Ok(is_video_only(this))
    /\ UNCHANGED methodFrame

\* Visual::year called
CallYear ==
    /\ called' = "year"
    /\ returned' = Ok(year(this))
    /\ UNCHANGED methodFrame

\* Visual::year_month called
CallYearMonth ==
    /\ called' = "year_month"
    /\ returned' = year_month(this)
    /\ UNCHANGED methodFrame

InitMethods ==
    /\ AppInit /\ PreviewsIdle
    /\ pictures = <<>> /\ videos = <<>> /\ library = {}
    /\ this \in AnyVisual
    /\ called = "-"
    /\ returned = <<>>

NextMethods ==
    \/ CallPath
    \/ CallIsSelfie
    \/ CallIsMotionPhoto
    \/ CallIsPhotoOnly
    \/ CallIsVideoOnly
    \/ CallYear
    \/ CallYearMonth

SpecMethods == InitMethods /\ [][NextMethods]_vars

\* ===================================================== coordinator claims
IsPrefix(s, t) == Len(s) <= Len(t) /\ \A i \in 1..Len(s) : s[i] = t[i]

Names(es) == [i \in 1..Len(es) |-> es[i].worker]

\* Stage Starts the App has sent, in order.
StageStarts == Names(SelectSeq(emitted, LAMBDA e : e.worker \in Stages))

\* What the App has sent on its own account after start-up: the stage Starts
\* and the reloads it requested itself (not the user's, not App::init's).
RunOrder == Names(SelectSeq(emitted, LAMBDA e : e.origin \in {"-", "self"}))

Count(seq, P(_)) == Len(SelectSeq(seq, P))

\* A stage is active from the moment its Start is sent until its worker has
\* reported Completed.
Active(s) == wk[s].inbox # <<>> \/ wk[s].running
ActiveStages == {s \in Stages : Active(s)}

\* Reloads requested by the App itself: asked for (in its own input channel)
\* or already sent to LoadLibrary.
SelfReloadsQueued == Count(appQueue, LAMBDA m : m.type = "LibraryRefresh" /\ m.origin = "self")
SelfReloadsSent == Count(emitted, LAMBDA e : e.worker = "LoadLibrary" /\ e.origin = "self")

PhotosFirstOrder == <<"ScanPhotos", "ScanVideos", "CleanPhotos", "CleanVideos",
               "EnrichPhotos", "EnrichVideos", "LoadLibrary">>
VideosFirstOrder == <<"ScanPhotos", "ScanVideos", "CleanPhotos", "CleanVideos",
               "EnrichVideos", "EnrichPhotos", "LoadLibrary">>

\* C1 (as stated): the App starts ScanPhotos, ScanVideos, CleanPhotos,
\* CleanVideos, EnrichVideos, EnrichPhotos in this order and then requests
\* the final reload: EnrichVideos is started before EnrichPhotos.
C1_OrderAsStated == IsPrefix(RunOrder, VideosFirstOrder)

\* C1 (amended): the App starts ScanPhotos, ScanVideos, CleanPhotos,
\* CleanVideos, EnrichPhotos, EnrichVideos in this order and only then
\* requests the final reload: EnrichPhotos is started before EnrichVideos.
C1_PhotosEnrichedFirst == IsPrefix(RunOrder, PhotosFirstOrder)

C1_Witness == RunOrder = PhotosFirstOrder

\* C2: at most one stage is active in any state; a stage other than the
\* first is started only once the App has handled the Completed of the stage
\* started before it (so ScanVideos never starts before ScanPhotos has
\* reported Completed), and an active stage has not yet been completed.
C2_OneStageAtATime ==
    /\ Cardinality(ActiveStages) <= 1
    /\ \A i \in 2..Len(StageStarts) : StageStarts[i - 1] \in completed
    /\ \A s \in ActiveStages : s \notin completed
    /\ Active("ScanVideos") => "ScanPhotos" \in completed

C2_Witness == wk["ScanVideos"].running /\ "ScanPhotos" \in completed

\* C3: whatever the user's refreshes, ScanPhotosInput::Start is sent at most
\* once and no stage is started a second time.
C3_SingleFlight ==
    \A s \in Stages : Count(emitted, LAMBDA e : e.worker = s) <= 1

C3_Witness ==
    /\ refreshed_handled["user"] >= 1
    /\ ActiveStages # {}
    /\ Count(emitted, LAMBDA e : e.worker = "ScanPhotos") = 1

\* C4: both scans have completed before CleanPhotos starts, both cleans have
\* completed before an enrichment stage starts, and no clean stage is active
\* while an enrichment stage is active.
C4_CleanBetweenScanAndEnrich ==
    /\ (\E i \in 1..Len(StageStarts) : StageStarts[i] \in CleanStages)
           => ScanStages \subseteq completed
    /\ (\E i \in 1..Len(StageStarts) : StageStarts[i] \in EnrichStages)
           => CleanStages \subseteq completed
    /\ ~(ActiveStages \cap CleanStages # {} /\ ActiveStages \cap EnrichStages # {})

C4_Witness ==
    /\ wk["EnrichPhotos"].running
    /\ ScanStages \cup CleanStages \subseteq completed

\* C8: the App requests a reload of its own exactly once, when the last
\* stage has completed and not before; once the reload it requested has
\* been published, no stage is active and no stage has been started again.
C8_OneFinalReload ==
    /\ SelfReloadsQueued + SelfReloadsSent =
           (IF Stages \subseteq completed THEN 1 ELSE 0)
    /\ refreshed_handled["self"] <= 1
    /\ refreshed_handled["self"] = 1 =>
           /\ ActiveStages = {}
           /\ StageStarts = SubSeq(PhotosFirstOrder, 1, 6)
           /\ \A i \in 1..Len(appQueue) :
                  appQueue[i].type \in {"ToggleSidebar", "LibraryRefresh",
                                        "LibraryRefreshed"}

C8_Witness == refreshed_handled["self"] = 1 /\ refreshed_handled["user"] = 1

\* C9: every LibraryRefreshed handled sends exactly one Refresh to each of
\* the eight views, and nothing else the App handles refreshes a view (the
\* one Refresh of folder_album before any message is App::init's).
C9_EveryViewRefreshed ==
    LET handled == refreshed_handled["init"] + refreshed_handled["user"]
                   + refreshed_handled["self"]
    IN  /\ Cardinality(Views) = 8
        /\ \A v \in Views :
               view_refresh[v] = handled + (IF v = "folder_album" THEN 1 ELSE 0)

C9_Witness ==
    /\ refreshed_handled["init"] = 1
    /\ refreshed_handled["user"] = 1
    /\ refreshed_handled["self"] = 1
    /\ view_refresh["year_photos"] = 3

\* ================================================= GeneratePreviews claims
\* A Generate has been handled to its end.
RunDone == gp_pc = "idle" /\ gp_calls # <<>>

\* repo.all() of the current Generate returned the pictures.
AllOk == gp_calls # <<>> /\ gp_calls[1].ok

SetPreviews == SelectSeq(gp_calls, LAMBDA c : c.op = "set_preview")
AddPreviews == SelectSeq(gp_calls, LAMBDA c : c.op = "add_preview")
Attempts(i) == Count(gp_calls, LAMBDA c : c.op = "set_preview" /\ c.pic = i)
Failures == Count(gp_calls, LAMBDA c : c.op # "all" /\ ~c.ok)

C6_FailureIsolation ==
    /\ \A i \in Pics : Attempts(i) <= 1
    /\ gp_result = "Ok" => \A i \in 1..Len(repo_rows) : Attempts(repo_rows[i]) = 1
    /\ gp_out # <<>> => gp_result = "Ok"
    /\ (RunDone /\ AllOk) =>
           /\ gp_result = "Ok"
           /\ Len(gp_out) = 1

C6_Witness ==
    /\ RunDone /\ AllOk
    /\ Len(repo_rows) = 2
    /\ \E i \in 1..Len(gp_calls) : gp_calls[i].op = "set_preview" /\ ~gp_calls[i].ok
    /\ \E i \in 1..Len(gp_calls) : gp_calls[i].op = "add_preview" /\ ~gp_calls[i].ok
    /\ gp_result = "Ok"

\* C7: the worker owns the repository mutex exactly while it executes
\* repo.all() or repo.add_preview(), never during set_preview; so whenever
\* the worker is between two repository calls a reader that wants the mutex
\* either holds it or can take it.
C7_LockDiscipline ==
    /\ repo_lock = "worker" <=> gp_pc \in {"all", "add_preview"}
    /\ gp_pc = "set_preview" => repo_lock # "worker"
    /\ gp_pc \in {"for", "set_preview"} => (repo_lock = "reader" \/ ENABLED ReaderLock)

C7_Witness ==
    /\ gp_pc = "set_preview"
    /\ repo_lock = "reader"
    /\ Len(AddPreviews) >= 1

\* ============================================================ Visual claims
Bool2Nat(x) == IF x THEN 1 ELSE 0

\* C10: every Visual of the library has a picture_id or a video_id, and
\* exactly one of these holds of it: is_photo_only(), is_video_only(), both
\* picture and video present.
C10_OneOfThreeCases ==
    \A v \in library :
        /\ is_some(v.picture_id) \/ is_some(v.video_id)
        /\ Bool2Nat(is_photo_only(v)) + Bool2Nat(is_video_only(v))
               + Bool2Nat(is_some(v.picture_id) /\ is_some(v.video_id)) = 1

C10_Witness ==
    /\ \E v \in library : is_video_only(v)
    /\ \E v \in library : is_some(v.picture_id) /\ is_some(v.video_id)

FailedNow ==
    {k \in 1..Len(gp_calls) : gp_calls[k].op = "set_preview" /\ ~gp_calls[k].ok}

\* C12 (as stated): a Generate sent while an earlier Generate is being
\* processed is a no-op: it causes no pass over the repository and no
\* PreviewsGenerated of its own.
C12_SingleFlightAsStated ==
    /\ gp_passes <= gp_sent - gp_during
    /\ gp_outputs <= gp_sent - gp_during

\* C13: a picture whose set_preview failed gets no add_preview in that
\* Generate, its stored preview is what it was when the Generate was taken,
\* and it is attempted once only; a later Generate whose repo.all()
\* succeeded attempts every picture that failed before.
C13_NoRetryWithinRun ==
    /\ \A k \in FailedNow :
           /\ \A j \in 1..Len(gp_calls) :
                  gp_calls[j].op = "add_preview" => gp_calls[j].pic # gp_calls[k].pic
           /\ Attempts(gp_calls[k].pic) = 1
           /\ gp_calls[k].pic \in repo_previews <=> gp_calls[k].pic \in gp_previews_start
    /\ gp_result = "Ok" => \A i \in gp_failed_before : Attempts(i) = 1

C13_Witness ==
    /\ RunDone /\ gp_result = "Ok"
    /\ \E i \in gp_failed_before : Attempts(i) = 1 /\ i \in repo_previews
    /\ FailedNow # {}

\* C20: the k-th set_preview of a Generate is for the k-th picture from the
\* end of what repo.all() returned; an add_preview directly follows the
\* successful set_preview of the same picture, and a successful set_preview
\* is directly followed by that add_preview, before any other call.
C20_NewestFirst ==
    /\ \A k \in 1..Len(SetPreviews) :
           /\ k <= Len(repo_rows)
           /\ SetPreviews[k].pic = repo_rows[Len(repo_rows) + 1 - k]
    /\ \A k \in 1..Len(gp_calls) :
           /\ gp_calls[k].op = "add_preview" =>
                  /\ k > 1
                  /\ gp_calls[k - 1] = Call("set_preview", gp_calls[k].pic, TRUE)
           /\ (gp_calls[k].op = "set_preview" /\ gp_calls[k].ok /\ k < Len(gp_calls)) =>
                  /\ gp_calls[k + 1].op = "add_preview"
                  /\ gp_calls[k + 1].pic = gp_calls[k].pic
    /\ gp_pc \in {"lock_add", "add_preview"} =>
           gp_calls[Len(gp_calls)] = Call("set_preview", gp_pic, TRUE)

C20_Witness ==
    /\ RunDone
    /\ Len(repo_rows) = 2
    /\ Len(AddPreviews) = 2
    /\ SetPreviews[1].pic # SetPreviews[2].pic

\* ------------------------------------------------ coordinator, progress, UI
\* The App has handled the stage's Started and not yet its Completed.
InProgress(s) == s \in started /\ s \notin completed
Enriching == \E s \in EnrichStages : InProgress(s)

\* Enriched messages of the stage' worker not yet handled by the App.
PendingEnriched(s) == Count(appQueue, LAMBDA m : m.type = Forward(s, "Generated"))

\* C14: while an enrichment stage is in progress, progress_end_count is the
\* count N of its Started(N) and progress_current_count is the number of its
\* Enriched messages handled so far (nothing of an earlier stage is counted):
\* the handled, the waiting and the still unreported items add up to N, so
\* 0 <= current <= end; and current = end when Completed is about to be
\* handled.
C14_ProgressCounters ==
    \A s \in EnrichStages :
        /\ InProgress(s) =>
               /\ 0 <= progress_current_count
               /\ progress_current_count <= progress_end_count
               /\ progress_current_count + PendingEnriched(s) + wk[s].remaining
                      = progress_end_count
        /\ Receive(Forward(s, "Completed")) =>
               progress_current_count = progress_end_count

C14_Witness ==
    /\ Receive("VideoEnrichmentCompleted")
    /\ progress_current_count = MaxItems
    /\ progress_end_count = MaxItems

\* No stage is running and no stage Start or reload request is pending,
\* after the reload requested by the last enrichment stage has been handled.
Quiescent ==
    /\ refreshed_handled["self"] = 1
    /\ Stages \subseteq completed
    /\ ActiveStages = {}
    /\ \A w \in Workers : wk[w].inbox = <<>>
    /\ \A i \in 1..Len(appQueue) : appQueue[i].type = "ToggleSidebar"

\* C15: with every message eventually handled and every worker eventually
\* answering, the run reaches the quiescent state that follows the final
\* LibraryRefreshed, and stays in it.
C15_Terminates == <>[]Quiescent

C15_Witness ==
    /\ Quiescent
    /\ appQueue = <<>>
    /\ user_clicks = MaxUserRefresh

\* LibraryRefreshed messages handled so far.
RefreshedHandled ==
    refreshed_handled["init"] + refreshed_handled["user"] + refreshed_handled["self"]

ScanPhotosStarts == Count(emitted, LAMBDA e : e.worker = "ScanPhotos")

\* C16: no stage Start is sent before the first LibraryRefreshed is handled;
\* last_load_at is set exactly once a LibraryRefreshed has been handled, and
\* never unset; ScanPhotos is started once, and the step that starts it is
\* the handling of a LibraryRefreshed that finds last_load_at unset.
C16_ScanOnFirstLoadOnly ==
    /\ [](last_load_at <=> RefreshedHandled >= 1)
    /\ [](~last_load_at => StageStarts = <<>>)
    /\ [](last_load_at => ScanPhotosStarts = 1)
    /\ [][last_load_at => last_load_at']_vars
    /\ [][ScanPhotosStarts' # ScanPhotosStarts
             => (Receive("LibraryRefreshed") /\ ~last_load_at)]_vars

C16_Witness ==
    /\ last_load_at
    /\ RefreshedHandled = 2 + MaxUserRefresh
    /\ ScanPhotosStarts = 1

\* C17: the progress box is visible exactly while an enrichment stage is in
\* progress.
C17_ProgressBoxOnlyWhileEnriching == progress_box_visible <=> Enriching

C17_Witness ==
    /\ progress_box_visible
    /\ InProgress("EnrichVideos")
    /\ "EnrichPhotos" \in completed

\* C18: the banner's button label is set exactly while an enrichment stage
\* is in progress.
C18_RefreshOnlyWhileEnriching == banner_button_label = "Refresh" <=> Enriching

C18_Witness ==
    /\ banner_button_label = "Refresh"
    /\ InProgress("EnrichPhotos")
    /\ user_clicks = 1

C22_SelfieCollapsed ==
    called = "is_selfie" =>
        /\ returned[1] = "ok"
        /\ returned[2] \in BOOLEAN
        /\ returned[2] <=> this.is_selfie = Some(TRUE)
        /\ this.is_selfie \in {None, Some(FALSE)} => ~returned[2]

C22_Witness ==
    /\ called = "is_selfie"
    /\ this.is_selfie = Some(FALSE)
    /\ returned = Ok(FALSE)

\* C23 (as stated): year_month() returns, without panicking, a month in
\* 1..12 and the calendar year of created_at, and year() returns the year
\* that year_month() returns, whatever the year of created_at.
C23_YearsAgreeAsStated ==
    /\ called = "year_month" =>
           /\ returned[1] = "ok"
           /\ returned[2].month \in Months
           /\ returned[2].year = this.created_at.year
    /\ called = "year" =>
           /\ year_month(this)[1] = "ok"
           /\ returned[2] = year_month(this)[2].year

\* C24: path() returns picture_path whenever it is present, video_path when
\* only video_path is present, and nothing only when both are absent.
C24_PathPrefersPicture ==
    called = "path" =>
        /\ returned[1] = "ok"
        /\ is_some(this.picture_path) => returned[2] = this.picture_path
        /\ (is_none(this.picture_path) /\ is_some(this.video_path))
               => returned[2] = this.video_path
        /\ is_none(returned[2])
               <=> (is_none(this.picture_path) /\ is_none(this.video_path))

C24_Witness ==
    /\ called = "path"
    /\ is_some(this.picture_path) /\ is_some(this.video_path)
    /\ returned = Ok(this.picture_path)

\* repo.all() of the current Generate returned an error.
AllFailed == gp_calls # <<>> /\ ~gp_calls[1].ok

\* C25: when repo.all() fails, the Generate makes no other call (no
\* set_preview, no add_preview), the worker does not own the mutex
\* afterwards, nothing is sent for that Generate, and once update has
\* returned the worker takes the next Generate that is waiting.
C25_AllFailureEndsRun ==
    AllFailed =>
        /\ Len(gp_calls) = 1
        /\ repo_lock # "worker"
        /\ gp_out = <<>>
        /\ gp_pc \in {"return", "idle"}
        /\ gp_previews_start = repo_previews
        /\ (gp_pc = "idle" /\ gp_inbox > 0) => ENABLED GpUpdate

C25_Witness ==
    /\ AllFailed
    /\ gp_pc = "idle"
    /\ gp_inbox > 0
    /\ Len(repo_rows) = MaxPics

\* ------------------------------------------------- reloads during the run
\* The App handles the message of type t at the head of its channel, the
\* handler sending the App nothing.
Handles(t) == Receive(t) /\ appQueue' = Tail(appQueue)

\* C26: handling LibraryRefresh, or LibraryRefreshed with last_load_at
\* set, leaves the progress counters, the progress box and bar, the banner
\* and the stages (started, completed, running) as they are and sends no
\* stage Start.
C26_ReloadLeavesPipelineAlone ==
    [][(Handles("LibraryRefresh") \/ (Handles("LibraryRefreshed") /\ last_load_at))
          => /\ UNCHANGED <<progressVars, bannerVars, started, completed>>
             /\ StageStarts' = StageStarts
             /\ \A s \in Stages : wk'[s] = wk[s]]_vars

C26_Witness ==
    /\ refreshed_handled["user"] = 1
    /\ InProgress("EnrichPhotos")
    /\ progress_box_visible
    /\ banner_revealed
    /\ progress_current_count = 1

\* C27 (as stated): whenever a stage is in progress (its Started handled,
\* its Completed not) the spinner has been started and not stopped.
C27_SpinsWhileWorking ==
    \A s \in Stages : InProgress(s) => spinner_spinning

\* The reload requested by the last enrichment stage has been handled.
RunComplete == refreshed_handled["self"] >= 1

====
